---- MODULE Spec2Model ----
(***************************************************************************)
(* Multi Module Flutter Tools: the batch runner, project discovery, the    *)
(* pubspec.yaml dependency localizer and the shell adapter, as state       *)
(* machines.                                                               *)
(*                                                                         *)
(* Text is modelled as a sequence of lexemes: each lexeme is an            *)
(* indivisible run of characters ("foo", ":", "path", "#", "  ", "\r",     *)
(* "\n", ...).  Concatenation, trimming, prefix tests, substring search    *)
(* and splitting are computed on those sequences the way the code          *)
(* computes them on characters.                                            *)
(***************************************************************************)
EXTENDS Naturals, Sequences, FiniteSets, TLC

VARIABLES
    \* ---- batch runner (runProjectOperation / runWorkspaceOperation) ----
    runner,        \* "project" or "workspace": which runner was called
    projectList,   \* the ordered item list (module names / workspace base names)
    pc,            \* "idle", "check" (loop head), "action" (awaiting the action), "done"
    idx,           \* 1-based index of the item the loop is at
    isCancellationRequested,  \* token.isCancellationRequested
    output,        \* the output channel: a sequence of trace lines
    warnings,      \* the messages given to showWarningMessage
    progressOpen,  \* whether the withProgress notification is open
    log,           \* history: invoke / return / throw per item, cancel
    cancelAt,      \* what the run looked like when cancellation was requested
    \* ---- project discovery (getAllFlutterProjects / discoverFlutterProjects) ----
    pubspecs,        \* the directories that hold a pubspec.yaml
    unreadable,      \* the directories whose listing fails
    maxDepth,        \* multiModuleFlutter.maxDepth
    excludeFolders,  \* multiModuleFlutter.excludeFolders
    scanNested,      \* multiModuleFlutter.scanNested
    workspaceFolders,\* [defined, roots]: vscode.workspace.workspaceFolders
    dpc,             \* "idle", "folders" (for loop head), "walk" (while loop), "done"
    folderIdx,       \* 1-based index of the workspace folder the loop is at
    stack,           \* the walk's stack of [dir, depth]
    projects,        \* the walk's Set of projects, in insertion order
    allProjects,     \* the array discovery results are pushed onto
    result,          \* what getAllFlutterProjects returned
    inspected,       \* [root, dir] for every hasPubspec(dir) of a walk from root
    listed,          \* [root, dir] for every readdir(dir) of a walk from root
    \* ---- shell adapter (runShellCommand / appendCommandOutput) ----
    useFvm,        \* multiModuleFlutter.useFvm
    spc,           \* "idle" or "exec" (awaiting execAsync)
    command,       \* the command string given to runShellCommand
    executed,      \* the strings given to execAsync, in order
    shResult,      \* the CommandResult of the last call
    settled,       \* what execAsync settled with in the last call
    shellOut,      \* what appendCommandOutput wrote to the output channel
    toggles,       \* number of changes of the useFvm setting so far
    \* ---- dependency localizer (convertDependenciesToLocal) ----
    file,          \* pubspec.yaml on disk: [exists, text]
    projectNames,  \* the sibling names passed to the localizer
    updated,       \* return value of the last localizer call
    runs,          \* number of localizer calls made so far
    file0,         \* the file as it was when the last call started
    wrote,         \* whether the last call reached fs.writeFile
    replacedAt,    \* line indexes (1-based) at which the last call set replaced = true
    \* ---- checks pipeline (runChecksOnProject) ----
    ckPc,          \* "idle", "check" (loop head), "exec" (awaiting runShellCommand), "done"
    ckProject,     \* the name of the picked module ("" while none)
    ckStep,        \* 1-based index of the step the loop is at
    ckCancel,      \* token.isCancellationRequested of the pipeline's progress
    ckOut,         \* the output channel
    ckWarnings,    \* the messages given to showWarningMessage
    ckStarted,     \* the strings given to execAsync, in order
    ckResults,     \* result.ok of every step that returned, in order
    ckCancelAt,    \* where the loop was when cancellation was requested
    \* ---- Pull/Update action (runPullUpdateAll / popNamedStash) ----
    gitPc,         \* the git command the action awaits: "checkout", "push", "pull", "list", "pop"
    stashes,       \* per item: the repository's stash list, newest first
    dirty,         \* per item: whether the work tree has local changes
    stashRef,      \* the N of stash@{N} popNamedStash matched
    \* ---- command handlers invoked side by side ----
    hPc,           \* per invocation: "idle", "check", "action", "done"
    hList,         \* per invocation: its item list
    hIdx,          \* per invocation: 1-based index of the item its loop is at
    sharedOut,     \* the one output channel: lines tagged with the invocation that wrote them
    procs          \* the invocations whose external process is running

locVars == <<file, projectNames, updated, runs, file0, wrote, replacedAt>>

batchVars == <<runner, projectList, pc, idx, isCancellationRequested, output,
               warnings, progressOpen, log, cancelAt>>

discVars == <<pubspecs, unreadable, maxDepth, excludeFolders, scanNested,
              workspaceFolders, dpc, folderIdx, stack, projects, allProjects,
              result, inspected, listed>>

checkVars == <<ckPc, ckProject, ckStep, ckCancel, ckOut, ckWarnings, ckStarted,
               ckResults, ckCancelAt>>

concVars == <<hPc, hList, hIdx, sharedOut, procs>>

pullVars == <<gitPc, stashes, dirty, stashRef>>

shellVars == <<useFvm, spc, command, executed, shResult, settled, shellOut,
               toggles>>

vars == <<batchVars, discVars, locVars, shellVars, checkVars, pullVars, concVars>>

\* What the actions of one component leave alone.
notBatch == <<discVars, locVars, shellVars, checkVars, pullVars, concVars>>
notDisc == <<batchVars, locVars, shellVars, checkVars, pullVars, concVars>>
notLoc == <<batchVars, discVars, shellVars, checkVars, pullVars, concVars>>
notShell == <<batchVars, discVars, locVars, checkVars, pullVars, concVars>>
notCheck == <<batchVars, discVars, locVars, pullVars, concVars>>
notPull == <<discVars, locVars, shellVars, checkVars, concVars>>
notConc == <<batchVars, discVars, locVars, shellVars, checkVars, pullVars>>

\* ------------------------------------------------------------------ text

\* Lexemes made of white space only (String.prototype.trim removes them).
WhiteSpace == {" ", "  ", "    ", "\t", "\r", "\n"}

\* Lexemes whose characters include the substring "path".
PathLexemes == {"path", "path_provider"}

\* Lexemes whose characters include "#"; each of them starts with it.
HashLexemes == {"#", "#foo"}

\* Bounds of the model.
MaxLines == 3
MaxRuns == 2
MaxItems == 3
MaxOut == 1
MaxDepthBound == 2
MaxPubspecs == 2
MaxFolders == 2
MaxCommands == 1
MaxToggles == 2
MaxConcItems == 2

RECURSIVE TrimStart(_)
TrimStart(s) ==
    IF s # <<>> /\ Head(s) \in WhiteSpace THEN TrimStart(Tail(s)) ELSE s

RECURSIVE TrimEnd(_)
TrimEnd(s) ==
    IF s # <<>> /\ s[Len(s)] \in WhiteSpace
    THEN TrimEnd(SubSeq(s, 1, Len(s) - 1))
    ELSE s

\* String.prototype.trim
Trim(s) == TrimEnd(TrimStart(s))

\* String.prototype.startsWith
StartsWith(s, prefix) ==
    /\ Len(prefix) <= Len(s)
    /\ SubSeq(s, 1, Len(prefix)) = prefix

\* String.prototype.indexOf("path"): 1-based position of the first lexeme
\* holding "path", 0 when there is none (the code's -1).
IndexOfPath(line) ==
    IF \E k \in 1..Len(line) : line[k] \in PathLexemes
    THEN CHOOSE k \in 1..Len(line) :
            /\ line[k] \in PathLexemes
            /\ \A j \in 1..(k - 1) : line[j] \notin PathLexemes
    ELSE 0

\* String.prototype.includes("#")
IncludesHash(s) == \E k \in 1..Len(s) : s[k] \in HashLexemes

\* String.prototype.startsWith("#")
StartsWithHash(s) == s # <<>> /\ s[1] \in HashLexemes

\* contents.split(/\r?\n/): cut at every "\n", dropping one "\r" right before it.
RECURSIVE SplitFrom(_, _, _)
SplitFrom(s, k, cur) ==
    IF k > Len(s) THEN <<cur>>
    ELSE IF s[k] = "\n"
         THEN <<cur>> \o SplitFrom(s, k + 1, <<>>)
         ELSE IF s[k] = "\r" /\ k < Len(s) /\ s[k + 1] = "\n"
              THEN <<cur>> \o SplitFrom(s, k + 2, <<>>)
              ELSE SplitFrom(s, k + 1, Append(cur, s[k]))

SplitLines(contents) == SplitFrom(contents, 1, <<>>)

\* Array.prototype.join(sep)
RECURSIVE Join(_, _)
Join(ls, sep) ==
    IF ls = <<>> THEN <<>>
    ELSE IF Len(ls) = 1 THEN ls[1]
    ELSE ls[1] \o sep \o Join(Tail(ls), sep)

\* --------------------------------------------- dependency localizer

isActivePathLine(line) ==
    LET index == IndexOfPath(line) IN
    IF index = 0 THEN FALSE
    ELSE ~IncludesHash(SubSeq(line, 1, index - 1))

\* `${dep}:`
DepKey(dep) == <<dep, ":">>

\* `  ${dep}:`
DepLine(dep) == <<"  ", dep, ":">>

\* Faulty variant: the path does not point at the parent directory.
PathLineNoParent(dep) == <<"    ", "path", ":", " ", dep>>

\* `    path: ../${dep}`
PathLine(dep) == <<"    ", "path", ":", " ", "../", dep>>

\* lines[i + 1] ?? ""   (i is 1-based here)
NextLineOf(lines, i) == IF i + 1 <= Len(lines) THEN lines[i + 1] ELSE <<>>

\* Faulty variant: full-line comments are not passed through.
IsSkippedNoComment(line) == line = <<>>

\* !line || line.trim().startsWith("#"): the line is passed through before
\* any dependency name is tried.
IsSkipped(line) ==
    \/ line = <<>>
    \/ StartsWithHash(Trim(line))

\* The inner loop over projectNames for one line: the dependency the line
\* is replaced for, or "" when the loop ends or breaks with replaced = false.
RECURSIVE DepLoop(_, _, _, _)
DepLoop(line, nextLine, names, k) ==
    IF k > Len(names) THEN ""
    ELSE IF ~StartsWith(Trim(line), DepKey(names[k]))
         THEN DepLoop(line, nextLine, names, k + 1)
         ELSE IF isActivePathLine(nextLine) THEN "" ELSE names[k]

\* What one iteration of the outer loop pushes onto updatedLines.
Pushed(line, dep) == IF dep = "" THEN <<line>> ELSE <<DepLine(dep), PathLine(dep)>>

\* The outer loop from line i on; acc holds updatedLines, updated and the
\* indexes at which replaced was set.
RECURSIVE LineLoop(_, _, _, _)
LineLoop(lines, names, i, acc) ==
    IF i > Len(lines) THEN acc
    ELSE LET line == lines[i]
             dep  == IF IsSkipped(line) THEN ""
                     ELSE DepLoop(line, NextLineOf(lines, i), names, 1)
         IN  LineLoop(lines, names, i + 1,
                      [lines   |-> acc.lines \o Pushed(line, dep),
                       updated |-> acc.updated \/ (dep # ""),
                       at      |-> acc.at \cup (IF dep # "" THEN {i} ELSE {})])

\* const updatedLines = []; let updated = false; and the loop.
Rewrite(contents, names) ==
    LineLoop(SplitLines(contents), names, 1,
             [lines |-> <<>>, updated |-> FALSE, at |-> {}])

\* Faulty variant: the lines are joined with CRLF.
JoinedCRLF(ls) == Join(ls, <<"\r", "\n">>)

\* updatedLines.join("\n")
Joined(ls) == Join(ls, <<"\n">>)

\* Faulty variant: the file is written back unconditionally.
ShouldWriteAlways(r) == TRUE

\* if (updated) { writeFile(...) }
ShouldWrite(r) == r.updated

\* One call of convertDependenciesToLocal on the file.
ConvertDependenciesToLocal ==
    /\ runs < MaxRuns
    /\ runs' = runs + 1
    /\ file0' = file
    /\ UNCHANGED projectNames
    /\ UNCHANGED notLoc
    /\ IF ~file.exists
       THEN /\ updated' = FALSE
            /\ wrote' = FALSE
            /\ replacedAt' = {}
            /\ UNCHANGED file
       ELSE \E r \in {Rewrite(file.text, projectNames)} :
            /\ updated' = r.updated
            /\ replacedAt' = r.at
            /\ wrote' = ShouldWrite(r)
            /\ file' = IF ShouldWrite(r)
                       THEN [exists |-> TRUE, text |-> Joined(r.lines)]
                       ELSE file

\* Manifest lines the model draws files from.
LineVocab ==
    { <<"  ", "foo", ":">>,                                   \* `  foo:`
      <<"    ", "version", ":", " ", "1.0.0">>,               \* `    version: 1.0.0`
      <<"    ", "path", ":", " ", "../", "foo">>,             \* `    path: ../foo`
      <<"  ", "#", " ", "foo", ":">>,                         \* `  # foo:`
      <<>>,                                                   \* empty line
      <<"foo", ":", " ", "^1.0.0">>,                          \* `foo: ^1.0.0`
      <<"    ", "#", " ", "path", ":", " ", "../", "foo">>,   \* `    # path: ../foo`
      <<"#foo", ":">> }                                       \* `#foo:`

\* Line endings a manifest is written with.
LineEndings == { <<"\n">>, <<"\r", "\n">> }

\* Sibling name lists (directory base names).
NameLists ==
    { <<>>, <<"foo">>, <<"path", "foo">>, <<"foo", "version">>, <<"#foo", "foo">> }

SeqsUpTo(S, n) == UNION { [1..k -> S] : k \in 0..n }

\* The batch runner before any command was triggered.
BatchIdle ==
    /\ runner = "project"
    /\ projectList = <<>>
    /\ pc = "idle"
    /\ idx = 1
    /\ isCancellationRequested = FALSE
    /\ warnings = <<>>
    /\ progressOpen = FALSE
    /\ log = <<>>
    /\ cancelAt = [pc |-> "none", idx |-> 0, output |-> <<>>]

\* No discovery in this run.
DiscIdle ==
    /\ pubspecs = {}
    /\ unreadable = {}
    /\ maxDepth = 2
    /\ excludeFolders = {}
    /\ scanNested = TRUE
    /\ workspaceFolders = [defined |-> FALSE, roots |-> <<>>]
    /\ dpc = "idle"
    /\ folderIdx = 1
    /\ stack = <<>>
    /\ projects = <<>>
    /\ allProjects = <<>>
    /\ result = <<>>
    /\ inspected = {}
    /\ listed = {}

\* No shell command in this run.
ShellIdle ==
    /\ useFvm = FALSE
    /\ spc = "idle"
    /\ command = <<>>
    /\ executed = <<>>
    /\ shResult = [ok |-> TRUE, stdout |-> <<>>, stderr |-> <<>>]
    /\ settled = [resolved |-> TRUE,
                  stdout |-> [defined |-> TRUE, s |-> <<>>],
                  stderr |-> [defined |-> TRUE, s |-> <<>>],
                  message |-> [defined |-> FALSE, s |-> <<>>]]
    /\ shellOut = <<>>
    /\ toggles = 0

\* No checks pipeline in this run.
CheckIdle ==
    /\ ckPc = "idle"
    /\ ckProject = ""
    /\ ckStep = 1
    /\ ckCancel = FALSE
    /\ ckOut = <<>>
    /\ ckWarnings = <<>>
    /\ ckStarted = <<>>
    /\ ckResults = <<>>
    /\ ckCancelAt = [pc |-> "none", step |-> 0]

\* The command invocations, e.g. one from the dashboard and one from the
\* command palette.
Handlers == {1, 2}

\* No second invocation in this run.
ConcIdle ==
    /\ hPc = [h \in Handlers |-> "idle"]
    /\ hList = [h \in Handlers |-> <<>>]
    /\ hIdx = [h \in Handlers |-> 1]
    /\ sharedOut = <<>>
    /\ procs = {}

\* No Pull/Update action in this run.
PullIdle ==
    /\ gitPc = "checkout"
    /\ stashes = <<>>
    /\ dirty = <<>>
    /\ stashRef = 0

\* No localizer call in this run.
LocIdle ==
    /\ file = [exists |-> FALSE, text |-> <<>>]
    /\ projectNames = <<>>
    /\ updated = FALSE
    /\ runs = 0
    /\ file0 = file
    /\ wrote = FALSE
    /\ replacedAt = {}

LocInit ==
    /\ \E ls \in SeqsUpTo(LineVocab, MaxLines), eol \in LineEndings, ex \in BOOLEAN :
          /\ ex \/ (ls = <<>> /\ eol = <<"\n">>)
          /\ file = [exists |-> ex, text |-> Join(ls, eol)]
    /\ projectNames \in NameLists
    /\ updated = FALSE
    /\ runs = 0
    /\ file0 = file
    /\ wrote = FALSE
    /\ replacedAt = {}

LocNext == ConvertDependenciesToLocal

InitLocalizer ==
    /\ LocInit
    /\ BatchIdle /\ output = <<>>
    /\ DiscIdle /\ ShellIdle /\ CheckIdle /\ PullIdle /\ ConcIdle

SpecLocalizer == InitLocalizer /\ [][LocNext]_vars

\* ------------------------------------------------------- batch runner

\* Base names of the modules / workspace folders a list is drawn from.
ItemNames == {"app", "core"}

\* localeCompare on the names: their rank in sorted order.
NameRank(n) == IF n = "app" THEN 1 ELSE 2

\* getAllProjects() returns the modules sorted by name; workspace folders
\* come in the order the workspace lists them.
IsSortedByName(list) ==
    \A k \in 1..(Len(list) - 1) : NameRank(list[k]) <= NameRank(list[k + 1])

\* What the output channel may hold from an earlier command.
OldOutputs == { <<>>, <<[kind |-> "old", item |-> 0, text |-> "earlier output"]>> }

\* output.appendLine(`\n=== ${name} » ${operationName} ===`)
HeaderLine(i) == [kind |-> "header", item |-> i, text |-> projectList[i]]

\* output.appendLine(`Error: ${error?.message || error}`)
ErrorLine(i) == [kind |-> "error", item |-> i, text |-> "Error: "]

\* A line the action of item i appends itself.
ActionLine(i) == [kind |-> "action", item |-> i, text |-> "action output"]

\* showWarningMessage(...) of the runner.
EmptyWarning(r) ==
    IF r = "project" THEN "No Flutter modules found." ELSE "No workspace folders found."

\* The number of lines item i's action has appended so far.
ActionLinesOf(i) ==
    Cardinality({ k \in 1..Len(output) : output[k] = ActionLine(i) })

\* Faulty variant: the output channel is cleared before the list is tested.
RunOperationClearsFirst ==
    /\ pc = "idle"
    /\ \E r \in {"project", "workspace"}, list \in SeqsUpTo(ItemNames, MaxItems) :
          /\ r = "project" => IsSortedByName(list)
          /\ runner' = r
          /\ projectList' = list
          /\ output' = <<>>
          /\ IF Len(list) = 0
             THEN /\ warnings' = Append(warnings, EmptyWarning(r))
                  /\ pc' = "done"
                  /\ UNCHANGED progressOpen
             ELSE /\ progressOpen' = TRUE
                  /\ pc' = "check"
                  /\ UNCHANGED warnings
    /\ UNCHANGED <<idx, isCancellationRequested, log, cancelAt>>
    /\ UNCHANGED notBatch

\* Entry of runProjectOperation / runWorkspaceOperation, up to the loop.
RunOperation ==
    /\ pc = "idle"
    /\ \E r \in {"project", "workspace"}, list \in SeqsUpTo(ItemNames, MaxItems) :
          /\ r = "project" => IsSortedByName(list)
          /\ runner' = r
          /\ projectList' = list
          /\ IF Len(list) = 0
             THEN /\ warnings' = Append(warnings, EmptyWarning(r))
                  /\ pc' = "done"
                  /\ UNCHANGED <<output, progressOpen>>
             ELSE /\ output' = <<>>
                  /\ progressOpen' = TRUE
                  /\ pc' = "check"
                  /\ UNCHANGED warnings
    /\ UNCHANGED <<idx, isCancellationRequested, log, cancelAt>>
    /\ UNCHANGED notBatch

\* Faulty variant: the cancellation token is never looked at.
LoopHeadIgnoringToken ==
    /\ pc = "check"
    /\ IF idx > Len(projectList)
       THEN /\ pc' = "done"
            /\ progressOpen' = FALSE
            /\ UNCHANGED <<output, log>>
       ELSE /\ output' = Append(output, HeaderLine(idx))
            /\ log' = Append(log, [ev |-> "invoke", item |-> idx])
            /\ pc' = "action"
            /\ UNCHANGED progressOpen
    /\ UNCHANGED <<runner, projectList, idx, isCancellationRequested, warnings, cancelAt>>
    /\ UNCHANGED notBatch

\* The head of the for loop: end of list, the cancellation test, the header
\* and the call of the action.
LoopHead ==
    /\ pc = "check"
    /\ IF idx > Len(projectList) \/ isCancellationRequested
       THEN /\ pc' = "done"
            /\ progressOpen' = FALSE
            /\ UNCHANGED <<output, log>>
       ELSE /\ output' = Append(output, HeaderLine(idx))
            /\ log' = Append(log, [ev |-> "invoke", item |-> idx])
            /\ pc' = "action"
            /\ UNCHANGED progressOpen
    /\ UNCHANGED <<runner, projectList, idx, isCancellationRequested, warnings, cancelAt>>
    /\ UNCHANGED notBatch

\* The action in flight appends a line of its own.
ActionOutput ==
    /\ pc = "action"
    /\ ActionLinesOf(idx) < MaxOut
    /\ output' = Append(output, ActionLine(idx))
    /\ UNCHANGED <<runner, projectList, pc, idx, isCancellationRequested, warnings,
                   progressOpen, log, cancelAt>>
    /\ UNCHANGED notBatch

\* await action(item) resolves.
ActionReturn ==
    /\ pc = "action"
    /\ log' = Append(log, [ev |-> "return", item |-> idx])
    /\ idx' = idx + 1
    /\ pc' = "check"
    /\ UNCHANGED <<runner, projectList, isCancellationRequested, output, warnings,
                   progressOpen, cancelAt>>
    /\ UNCHANGED notBatch

\* Faulty variant: the rejection is not caught and ends the loop.
ActionThrowAborts ==
    /\ pc = "action"
    /\ log' = Append(log, [ev |-> "throw", item |-> idx])
    /\ output' = Append(output, ErrorLine(idx))
    /\ pc' = "done"
    /\ progressOpen' = FALSE
    /\ UNCHANGED <<runner, projectList, idx, isCancellationRequested, warnings, cancelAt>>
    /\ UNCHANGED notBatch

\* Faulty variant: the failed item is tried again.
ActionThrowRetries ==
    /\ pc = "action"
    /\ Len(log) < 2 * MaxItems + 4
    /\ log' = Append(log, [ev |-> "throw", item |-> idx])
    /\ output' = Append(output, ErrorLine(idx))
    /\ pc' = "check"
    /\ UNCHANGED <<runner, projectList, idx, isCancellationRequested, warnings,
                   progressOpen, cancelAt>>
    /\ UNCHANGED notBatch

\* await action(item) rejects: the catch block appends the failure line.
ActionThrow ==
    /\ pc = "action"
    /\ log' = Append(log, [ev |-> "throw", item |-> idx])
    /\ output' = Append(output, ErrorLine(idx))
    /\ idx' = idx + 1
    /\ pc' = "check"
    /\ UNCHANGED <<runner, projectList, isCancellationRequested, warnings,
                   progressOpen, cancelAt>>
    /\ UNCHANGED notBatch

\* The operator presses Cancel on the progress notification.
Cancel ==
    /\ progressOpen
    /\ ~isCancellationRequested
    /\ isCancellationRequested' = TRUE
    /\ log' = Append(log, [ev |-> "cancel", item |-> idx])
    /\ cancelAt' = [pc |-> pc, idx |-> idx, output |-> output]
    /\ UNCHANGED <<runner, projectList, pc, idx, output, warnings, progressOpen>>
    /\ UNCHANGED notBatch

BatchInit ==
    /\ BatchIdle
    /\ output \in OldOutputs

BatchNext ==
    \/ RunOperation
    \/ LoopHead
    \/ ActionOutput
    \/ ActionReturn
    \/ ActionThrow
    \/ Cancel

Init ==
    /\ BatchInit
    /\ DiscIdle /\ LocIdle /\ ShellIdle /\ CheckIdle /\ PullIdle /\ ConcIdle

Next == BatchNext

Spec == Init /\ [][Next]_vars

\* --------------------------------------------------- project discovery

\* The directories of the file system, as paths from its top.
Tree ==
    { <<>>, <<"a">>, <<"b">>, <<"build">>,
      <<"a", "a">>, <<"a", "build">>, <<"build", "a">>,
      <<"a", "a", "a">>, <<"a", "a", "a", "a">> }

\* The plain files of the file system (pubspec.yaml files apart).
Files == { <<"README.md">>, <<"a", "notes.txt">> }

\* Entry names in the order readdir lists them.
EntryOrder == <<"a", "b", "build", "README.md", "notes.txt">>

\* The directories in which a pubspec.yaml may lie.
PubspecCandidates ==
    { <<>>, <<"a">>, <<"a", "a">>, <<"a", "a", "a">>, <<"a", "build">>, <<"build", "a">> }

\* The directories that may be opened as workspace folders.
RootCandidates == { <<>>, <<"a", "a">> }

\* The excludeFolders settings tried.
ExcludeSettings == { {}, {"build"}, {"b", "build"} }

\* hasPubspec(dir): fs.stat(path.join(dir, "pubspec.yaml")) succeeds.
hasPubspec(dir) == dir \in pubspecs

\* path.join(dir, entry.name)
PathJoin(dir, name) == Append(dir, name)

\* fs.readdir(dir, { withFileTypes: true }): the Dirents, or the failure.
RECURSIVE EntriesFrom(_, _)
EntriesFrom(dir, k) ==
    IF k > Len(EntryOrder) THEN <<>>
    ELSE LET child == PathJoin(dir, EntryOrder[k]) IN
         (IF child \in Tree
          THEN <<[name |-> EntryOrder[k], isDirectory |-> TRUE]>>
          ELSE IF child \in Files
               THEN <<[name |-> EntryOrder[k], isDirectory |-> FALSE]>>
               ELSE <<>>) \o EntriesFrom(dir, k + 1)

ReaddirFails(dir) == dir \notin Tree \/ dir \in unreadable

Readdir(dir) == EntriesFrom(dir, 1)

\* Faulty variant: excludeFolders is not consulted.
shouldSkipEntryNoExclude(entry, exclude) ==
    IF ~entry.isDirectory THEN TRUE
    ELSE IF entry.name = "." \/ entry.name = ".." THEN TRUE
    ELSE FALSE

shouldSkipEntry(entry, exclude) ==
    IF ~entry.isDirectory THEN TRUE
    ELSE IF entry.name = "." \/ entry.name = ".." THEN TRUE
    ELSE IF entry.name \in exclude THEN TRUE
    ELSE FALSE

\* The for loop over the entries: the stack after the pushes.
RECURSIVE PushChildren(_, _, _, _, _)
PushChildren(stk, dir, depth, entries, k) ==
    IF k > Len(entries) THEN stk
    ELSE IF shouldSkipEntry(entries[k], excludeFolders)
         THEN PushChildren(stk, dir, depth, entries, k + 1)
         ELSE PushChildren(Append(stk, [dir |-> PathJoin(dir, entries[k].name),
                                        depth |-> depth + 1]),
                           dir, depth, entries, k + 1)

\* Set.prototype.add on a Set kept in insertion order.
SetAdd(seq, x) ==
    IF \E k \in 1..Len(seq) : seq[k] = x THEN seq ELSE Append(seq, x)

\* [...new Set(array)]
RECURSIVE Dedupe(_)
Dedupe(seq) ==
    IF seq = <<>> THEN <<>>
    ELSE LET init == Dedupe(SubSeq(seq, 1, Len(seq) - 1)) IN SetAdd(init, seq[Len(seq)])

\* depth >= options.maxDepth
DepthReached(depth) == depth >= maxDepth

\* getAllFlutterProjects up to its for loop.
GetAllFlutterProjects ==
    /\ dpc = "idle"
    /\ IF ~workspaceFolders.defined
       THEN /\ result' = <<>>
            /\ dpc' = "done"
       ELSE /\ dpc' = "folders"
            /\ UNCHANGED result
    /\ allProjects' = <<>>
    /\ folderIdx' = 1
    /\ UNCHANGED <<pubspecs, unreadable, maxDepth, excludeFolders, scanNested,
                   workspaceFolders, stack, projects, inspected, listed>>
    /\ UNCHANGED notDisc

\* The head of the loop over the workspace folders: the end of the loop and
\* the return, the call of discoverFlutterProjects, or the hasPubspec(root) test.
NextFolder ==
    /\ dpc = "folders"
    /\ IF folderIdx > Len(workspaceFolders.roots)
       THEN /\ result' = Dedupe(allProjects)
            /\ dpc' = "done"
            /\ UNCHANGED <<folderIdx, stack, projects, allProjects>>
       ELSE LET root == workspaceFolders.roots[folderIdx] IN
            IF scanNested
            THEN /\ stack' = <<[dir |-> root, depth |-> 0]>>
                 /\ projects' = <<>>
                 /\ dpc' = "walk"
                 /\ UNCHANGED <<folderIdx, allProjects, result>>
            ELSE /\ allProjects' = IF hasPubspec(root)
                                   THEN Append(allProjects, root)
                                   ELSE allProjects
                 /\ folderIdx' = folderIdx + 1
                 /\ UNCHANGED <<dpc, stack, projects, result>>
    /\ UNCHANGED <<pubspecs, unreadable, maxDepth, excludeFolders, scanNested,
                   workspaceFolders, inspected, listed>>
    /\ UNCHANGED notDisc

\* One iteration of the while loop of discoverFlutterProjects.
DiscoverStep ==
    /\ dpc = "walk"
    /\ stack # <<>>
    /\ LET root  == workspaceFolders.roots[folderIdx]
           top   == stack[Len(stack)]
           rest  == SubSeq(stack, 1, Len(stack) - 1)
       IN  /\ inspected' = inspected \cup {[root |-> root, dir |-> top.dir]}
           /\ IF hasPubspec(top.dir)
              THEN /\ projects' = SetAdd(projects, top.dir)
                   /\ stack' = rest
                   /\ UNCHANGED listed
              ELSE IF DepthReached(top.depth)
              THEN /\ stack' = rest
                   /\ UNCHANGED <<projects, listed>>
              ELSE /\ listed' = listed \cup {[root |-> root, dir |-> top.dir]}
                   /\ stack' = IF ReaddirFails(top.dir)
                               THEN rest
                               ELSE PushChildren(rest, top.dir, top.depth,
                                                 Readdir(top.dir), 1)
                   /\ UNCHANGED projects
    /\ UNCHANGED <<pubspecs, unreadable, maxDepth, excludeFolders, scanNested,
                   workspaceFolders, dpc, folderIdx, allProjects, result>>
    /\ UNCHANGED notDisc

\* discoverFlutterProjects returns and its result is pushed onto allProjects.
DiscoverReturn ==
    /\ dpc = "walk"
    /\ stack = <<>>
    /\ allProjects' = allProjects \o projects
    /\ folderIdx' = folderIdx + 1
    /\ dpc' = "folders"
    /\ UNCHANGED <<pubspecs, unreadable, maxDepth, excludeFolders, scanNested,
                   workspaceFolders, stack, projects, result, inspected, listed>>
    /\ UNCHANGED notDisc

DiscInit ==
    /\ pubspecs \in { P \in SUBSET PubspecCandidates : Cardinality(P) <= MaxPubspecs }
    /\ unreadable \in { {}, {<<"a">>} }
    /\ maxDepth \in 0..MaxDepthBound
    /\ excludeFolders \in ExcludeSettings
    /\ scanNested \in BOOLEAN
    /\ workspaceFolders \in
          {[defined |-> FALSE, roots |-> <<>>]}
          \cup { [defined |-> TRUE, roots |-> r] : r \in SeqsUpTo(RootCandidates, MaxFolders) }
    /\ dpc = "idle"
    /\ folderIdx = 1
    /\ stack = <<>>
    /\ projects = <<>>
    /\ allProjects = <<>>
    /\ result = <<>>
    /\ inspected = {}
    /\ listed = {}

DiscNext ==
    \/ GetAllFlutterProjects
    \/ NextFolder
    \/ DiscoverStep
    \/ DiscoverReturn

InitDiscovery ==
    /\ DiscInit
    /\ BatchIdle /\ output = <<>>
    /\ LocIdle /\ ShellIdle /\ CheckIdle /\ PullIdle /\ ConcIdle

SpecDiscovery == InitDiscovery /\ [][DiscNext]_vars

\* ----------------------------------------- discovery: properties

\* q lies strictly below p.
ProperDescendant(q, p) == Len(q) > Len(p) /\ SubSeq(q, 1, Len(p)) = p

\* The child steps that lead from root to dir (dir lies at or below root).
StepsFrom(root, dir) == SubSeq(dir, Len(root) + 1, Len(dir))

\* C4: every directory a walk inspects or lists is reached from its root by
\* at most maxDepth child steps, none of them an excluded name (a listed one
\* by fewer than maxDepth); every directory a walk reports holds
\* pubspec.yaml; with maxDepth = 0 only the root is inspected, nothing listed.
C4_DiscoveryBounds ==
    /\ \A r \in inspected \cup listed :
          /\ r.dir = r.root \/ ProperDescendant(r.dir, r.root)
          /\ r.dir \in Tree
          /\ Len(StepsFrom(r.root, r.dir)) <= maxDepth
          /\ \A k \in 1..Len(StepsFrom(r.root, r.dir)) :
                StepsFrom(r.root, r.dir)[k] \notin excludeFolders
    /\ \A r \in listed : Len(StepsFrom(r.root, r.dir)) < maxDepth
    /\ \A k \in 1..Len(projects) : projects[k] \in pubspecs
    /\ scanNested => \A k \in 1..Len(allProjects) : allProjects[k] \in pubspecs
    /\ maxDepth = 0 => (listed = {} /\ \A r \in inspected : r.dir = r.root)

C4_Witness ==
    /\ dpc = "done" /\ scanNested
    /\ maxDepth = 2 /\ excludeFolders = {"build"}
    /\ workspaceFolders.roots = << <<>> >>
    /\ pubspecs = { <<"a", "a", "a">>, <<"a", "build">> }
    /\ [root |-> <<>>, dir |-> <<"a", "a">>] \in inspected
    /\ [root |-> <<>>, dir |-> <<"a">>] \in listed
    /\ result = <<>>

\* C5 (as stated): no project directory reported for the workspace lies
\* strictly below another reported project directory, whatever the tree and
\* the list of workspace roots.
C5_NoNestedProjects ==
    (dpc = "done" /\ scanNested) =>
       \A j, k \in 1..Len(result) : ~ProperDescendant(result[j], result[k])

\* C16 (as stated): convertDependenciesToLocal is idempotent: a second call
\* with the same names on the file the first call left returns false and
\* leaves the file as it is, for every manifest and every list of names.
C16_Idempotent ==
    runs >= 2 => (~updated /\ ~wrote /\ file = file0)

\* ------------------------------------------------------- shell adapter

\* Command strings the callers pass (the custom command is free text).
Commands ==
    { <<"flutter">>,
      <<"flutter", " ", "pub get">>,
      <<"dart", " ", "pub cache repair">>,
      <<" ", "flutter", " ", "clean">>,
      <<"flutterfire", " ", "configure">>,
      <<"git", " ", "status">> }

\* A value that may be undefined.
Undefined == [defined |-> FALSE, s |-> <<>>]
Def(s) == [defined |-> TRUE, s |-> s]

\* a ?? b
Nullish(a, b) == IF a.defined THEN a ELSE b

\* What execAsync settles with: the resolved { stdout, stderr }, or the
\* rejection's error with its stdout, stderr and message.
ExecOutcomes ==
    { [resolved |-> TRUE, stdout |-> Def(o), stderr |-> Def(e), message |-> Undefined] :
         o \in { <<>>, <<"out">>, <<"out", "\n">> }, e \in { <<>>, <<"warn">> } }
    \cup
    { [resolved |-> FALSE, stdout |-> o, stderr |-> e, message |-> m] :
         o \in { Undefined, Def(<<>>), Def(<<"out">>) },
         e \in { Undefined, Def(<<>>), Def(<<"err", "\n">>) },
         m \in { Undefined, Def(<<"Command failed">>) } }

\* applyFvmProxy(command), reading the useFvm setting as it is now.
applyFvmProxy(cmd) ==
    IF ~useFvm THEN cmd
    ELSE LET trimmed == Trim(cmd) IN
         IF trimmed = <<"flutter">> \/ StartsWith(trimmed, <<"flutter", " ">>)
         THEN <<"fvm", " ">> \o cmd
         ELSE IF trimmed = <<"dart">> \/ StartsWith(trimmed, <<"dart", " ">>)
              THEN <<"fvm", " ">> \o cmd
              ELSE cmd

\* The record runShellCommand returns for an outcome of execAsync.
CommandResult(o) ==
    IF o.resolved
    THEN [ok |-> TRUE,
          stdout |-> Nullish(o.stdout, Def(<<>>)).s,
          stderr |-> Nullish(o.stderr, Def(<<>>)).s]
    ELSE [ok |-> FALSE,
          stdout |-> Nullish(o.stdout, Def(<<>>)).s,
          stderr |-> Nullish(o.stderr, Nullish(o.message, Def(<<"Unknown error">>))).s]

\* s.endsWith("\n") ? s : `${s}\n`
WithNewline(s) == IF s # <<>> /\ s[Len(s)] = "\n" THEN s ELSE s \o <<"\n">>

\* appendCommandOutput(output, command, result): the chunks appended.
AppendCommandOutput(out, cmd, res) ==
    out \o <<[kind |-> "echo", text |-> <<"$", " ">> \o applyFvmProxy(cmd)]>>
        \o (IF res.stdout # <<>>
            THEN <<[kind |-> "stdout", text |-> WithNewline(res.stdout)]>> ELSE <<>>)
        \o (IF res.stderr # <<>>
            THEN <<[kind |-> "stderr", text |-> WithNewline(res.stderr)]>> ELSE <<>>)

\* runShellCommand up to its await: the command is proxied and started.
RunShellCommand ==
    /\ spc = "idle"
    /\ Len(executed) < MaxCommands
    /\ \E cmd \in Commands :
          /\ command' = cmd
          /\ executed' = Append(executed, applyFvmProxy(cmd))
    /\ spc' = "exec"
    /\ UNCHANGED <<useFvm, shResult, settled, shellOut, toggles>>
    /\ UNCHANGED notShell

\* execAsync settles, runShellCommand returns its record and the caller
\* hands it to appendCommandOutput.
CommandSettles ==
    /\ spc = "exec"
    /\ \E o \in ExecOutcomes :
          /\ settled' = o
          /\ shResult' = CommandResult(o)
          /\ shellOut' = AppendCommandOutput(shellOut, command, CommandResult(o))
    /\ spc' = "idle"
    /\ UNCHANGED <<useFvm, command, executed, toggles>>
    /\ UNCHANGED notShell

\* The user changes multiModuleFlutter.useFvm in the settings.
ChangeUseFvm ==
    /\ toggles < MaxToggles
    /\ toggles' = toggles + 1
    /\ useFvm' = ~useFvm
    /\ UNCHANGED <<spc, command, executed, shResult, settled, shellOut>>
    /\ UNCHANGED notShell

ShellInit ==
    /\ useFvm \in BOOLEAN
    /\ spc = "idle"
    /\ command = <<>>
    /\ executed = <<>>
    /\ shResult = [ok |-> TRUE, stdout |-> <<>>, stderr |-> <<>>]
    /\ settled = [resolved |-> TRUE,
                  stdout |-> [defined |-> TRUE, s |-> <<>>],
                  stderr |-> [defined |-> TRUE, s |-> <<>>],
                  message |-> [defined |-> FALSE, s |-> <<>>]]
    /\ shellOut = <<>>
    /\ toggles = 0

ShellNext ==
    \/ RunShellCommand
    \/ CommandSettles
    \/ ChangeUseFvm

InitShell ==
    /\ ShellInit
    /\ BatchIdle /\ output = <<>>
    /\ DiscIdle /\ LocIdle /\ CheckIdle /\ PullIdle /\ ConcIdle

SpecShell == InitShell /\ [][ShellNext]_vars

\* ------------------------------------------- shell adapter: properties

\* The `$ ...` lines of the trace, in order.
RECURSIVE EchoTexts(_)
EchoTexts(out) ==
    IF out = <<>> THEN <<>>
    ELSE (IF Head(out).kind = "echo" THEN <<Head(out).text>> ELSE <<>>)
         \o EchoTexts(Tail(out))

\* C10 (as stated): the command shown on each `$ ...` line is the command
\* string that was executed, whenever the useFvm setting changes.
C10_EchoMatchesExecuted ==
    LET echoes == EchoTexts(shellOut) IN
    \A k \in 1..Len(echoes) : echoes[k] = <<"$", " ">> \o executed[k]

\* Whether the failed process left no stderr output of its own.
NoOwnStderr(o) == ~o.stderr.defined \/ o.stderr.s = <<>>

\* C11 (as stated): runShellCommand returns a record whose ok is false
\* exactly when execAsync rejected (non-zero exit or failed launch), and
\* whenever the failed process produced no stderr output of its own the
\* returned stderr holds the failure's error message rather than being
\* empty.
C11_FailureMessageInStderr ==
    (spc = "idle" /\ Len(executed) > 0) =>
       /\ shResult.ok = settled.resolved
       /\ (~settled.resolved /\ NoOwnStderr(settled)) =>
              /\ shResult.stderr # <<>>
              /\ shResult.stderr
                    = Nullish(settled.message, Def(<<"Unknown error">>)).s

\* ----------------------------------------------------- checks pipeline

\* The commands of the five steps, in the order of the steps array.
Steps ==
    << <<"dart", " ", "format -l 120 ./lib">>,
       <<"dart", " ", "run build_runner clean">>,
       <<"dart", " ", "run build_runner build --delete-conflicting-outputs">>,
       <<"flutter", " ", "analyze">>,
       <<"flutter", " ", "test">> >>

\* What getAllProjects() can return to the pipeline (sorted by name).
CheckProjectLists == { <<>>, <<"app">>, <<"app", "core">> }

\* What execAsync settles with for a step.
StepOutcomes ==
    { [resolved |-> TRUE, stdout |-> Def(<<"out">>), stderr |-> Def(<<>>),
       message |-> Undefined],
      [resolved |-> FALSE, stdout |-> Def(<<"out">>), stderr |-> Def(<<"err", "\n">>),
       message |-> Def(<<"Command failed">>)],
      [resolved |-> FALSE, stdout |-> Def(<<>>), stderr |-> Def(<<>>),
       message |-> Def(<<"Command failed">>)] }

\* output.appendLine(`\n=== ${project.name} » ${step.label} ===`)
StepHeader(name, k) == [kind |-> "header", text |-> <<name, " » ">> \o Steps[k]]

\* output.appendLine("Stopping on first failure.")
StopLine == [kind |-> "stop", text |-> <<"Stopping on first failure.">>]

\* if (!result.ok): a step never stops the pipeline (the test is dropped).
StopsPipelineNever(res) == FALSE

\* if (!result.ok) { ...; break; }
StopsPipeline(res) == ~res.ok

\* runChecksOnProject up to the progress loop: the projects are listed, one
\* is picked and the output channel is cleared.
RunChecksOnProject ==
    /\ ckPc = "idle"
    /\ \E ps \in CheckProjectLists :
          IF Len(ps) = 0
          THEN /\ ckWarnings' = Append(ckWarnings, "No Flutter modules found.")
               /\ ckPc' = "done"
               /\ UNCHANGED <<ckProject, ckOut>>
          ELSE \E choice \in {""} \cup { ps[k] : k \in 1..Len(ps) } :
                  IF choice = ""
                  THEN /\ ckPc' = "done"
                       /\ UNCHANGED <<ckProject, ckOut, ckWarnings>>
                  ELSE /\ ckProject' = choice
                       /\ ckOut' = <<>>
                       /\ ckPc' = "check"
                       /\ UNCHANGED ckWarnings
    /\ UNCHANGED <<ckStep, ckCancel, ckStarted, ckResults, ckCancelAt>>
    /\ UNCHANGED <<notCheck, shellVars>>

\* The head of `for (const step of steps)`: the loop ends, or breaks on a
\* cancelled token, or appends the header and starts the step's command.
CheckLoopHead ==
    /\ ckPc = "check"
    /\ IF ckStep > Len(Steps) \/ ckCancel
       THEN /\ ckPc' = "done"
            /\ UNCHANGED <<ckOut, ckStarted>>
       ELSE /\ ckOut' = Append(ckOut, StepHeader(ckProject, ckStep))
            /\ ckStarted' = Append(ckStarted, applyFvmProxy(Steps[ckStep]))
            /\ ckPc' = "exec"
    /\ UNCHANGED <<ckProject, ckStep, ckCancel, ckWarnings, ckResults, ckCancelAt>>
    /\ UNCHANGED <<notCheck, shellVars>>

\* runShellCommand returns: its output is appended and the pipeline stops
\* on a failure or goes to the next step.
CheckStepSettles ==
    /\ ckPc = "exec"
    /\ \E o \in StepOutcomes :
          \E res \in {CommandResult(o)} :
             /\ ckResults' = Append(ckResults, res.ok)
             /\ IF StopsPipeline(res)
                THEN /\ ckOut' = Append(AppendCommandOutput(ckOut, Steps[ckStep], res),
                                        StopLine)
                     /\ ckPc' = "done"
                     /\ UNCHANGED ckStep
                ELSE /\ ckOut' = AppendCommandOutput(ckOut, Steps[ckStep], res)
                     /\ ckStep' = ckStep + 1
                     /\ ckPc' = "check"
    /\ UNCHANGED <<ckProject, ckCancel, ckWarnings, ckStarted, ckCancelAt>>
    /\ UNCHANGED <<notCheck, shellVars>>

\* The user presses Cancel on the pipeline's progress notification.
CheckCancel ==
    /\ ckPc \in {"check", "exec"}
    /\ ~ckCancel
    /\ ckCancel' = TRUE
    /\ ckCancelAt' = [pc |-> ckPc, step |-> ckStep]
    /\ UNCHANGED <<ckPc, ckProject, ckStep, ckOut, ckWarnings, ckStarted, ckResults>>
    /\ UNCHANGED <<notCheck, shellVars>>

CheckInit == CheckIdle

CheckNext ==
    \/ RunChecksOnProject
    \/ CheckLoopHead
    \/ CheckStepSettles
    \/ CheckCancel

InitChecks ==
    /\ CheckInit /\ ShellInit
    /\ BatchIdle /\ output = <<>>
    /\ DiscIdle /\ LocIdle /\ PullIdle /\ ConcIdle

SpecChecks == InitChecks /\ [][CheckNext]_vars

\* ----------------------------------------- checks pipeline: properties

\* The header lines of the pipeline's trace, in order.
StepHeaders == SelectSeq(ckOut, LAMBDA l : l.kind = "header")

\* C12: the pipeline runs the five steps on the one picked module strictly
\* in their order, at most one at a time, each started only after every
\* earlier step returned ok; after the first step that is not ok, or after
\* a cancellation seen at the loop head, no later step is started.
C12_StepsInOrderStopOnFailure ==
    LET n == Len(ckStarted)
        r == Len(ckResults)
        hs == StepHeaders
    IN /\ n <= Len(Steps)
       /\ \A k \in 1..n : ckStarted[k] = applyFvmProxy(Steps[k])
       /\ Len(hs) = n
       /\ \A k \in 1..n : hs[k] = StepHeader(ckProject, k)
       /\ IF ckPc = "exec" THEN r = n - 1 ELSE r = n
       /\ \A k \in 1..r : k < n => ckResults[k]
       /\ \A k \in 1..r : ~ckResults[k] => (n = k /\ ckPc = "done")
       /\ ckCancelAt.pc = "check" => n = ckCancelAt.step - 1
       /\ ckCancelAt.pc = "exec" => n = ckCancelAt.step

\* The third step failed after two good ones and the pipeline stopped there.
C12_Witness ==
    /\ ckPc = "done"
    /\ ckResults = <<TRUE, TRUE, FALSE>>
    /\ Len(ckStarted) = 3
    /\ ckOut[Len(ckOut)] = StopLine

\* ------------------------------------------------- Pull/Update action

\* `flutter-tools-${Date.now().toString(36)}` of the action on item i: the
\* clock differs from one item's action to the next.
StashMessage(i) == <<"flutter-tools-", i>>

\* The stash list a module's repository can hold before the operation.
OldStashLists == { <<>>, << <<"WIP">> >> }

\* line.includes(stashMessage), on the message part of a `git stash list` line.
LineIncludes(line, msg) == line = msg

\* lines.find(...) and the N of its stash@{N}: the 0-based position of the
\* first matching line, or -1 when there is none.
FindStash(lines, msg) ==
    IF \E k \in 1..Len(lines) : LineIncludes(lines[k], msg)
    THEN (CHOOSE k \in 1..Len(lines) :
             /\ LineIncludes(lines[k], msg)
             /\ \A j \in 1..(k - 1) : ~LineIncludes(lines[j], msg)) - 1
    ELSE 0 - 1

\* The stash list without stash@{n}.
DropStash(lines, n) ==
    SubSeq(lines, 1, n) \o SubSeq(lines, n + 2, Len(lines))

\* The action's promise rejects: the runner's catch appends the failure
\* line and the loop goes to the next item.
PullActionThrows ==
    /\ log' = Append(log, [ev |-> "throw", item |-> idx])
    /\ output' = Append(output, ErrorLine(idx))
    /\ idx' = idx + 1
    /\ pc' = "check"
    /\ gitPc' = "checkout"
    /\ stashRef' = 0

\* The action appends its closing line and resolves.
PullActionReturns(text) ==
    /\ log' = Append(log, [ev |-> "return", item |-> idx])
    /\ output' = Append(output, [kind |-> "action", item |-> idx, text |-> text])
    /\ idx' = idx + 1
    /\ pc' = "check"
    /\ gitPc' = "checkout"
    /\ stashRef' = 0

\* runPullUpdateAll: runProjectOperation("Pull/Update", undefined, ...).
RunPullUpdateAll ==
    /\ RunOperation
    /\ runner' = "project"

\* await git.raw(["checkout", "--quiet", "pubspec.yaml"])
PullCheckout ==
    /\ pc = "action"
    /\ gitPc = "checkout"
    /\ \/ /\ gitPc' = "push"
          /\ UNCHANGED <<pc, idx, output, log, stashRef>>
       \/ PullActionThrows
    /\ UNCHANGED <<stashes, dirty>>
    /\ UNCHANGED <<runner, projectList, isCancellationRequested, warnings,
                   progressOpen, cancelAt>>
    /\ UNCHANGED notPull

\* await git.raw(["stash", "push", "-m", stashMessage]): local changes are
\* stashed under the message; a clean work tree creates no stash.
PullStashPush ==
    /\ pc = "action"
    /\ gitPc = "push"
    /\ \/ /\ gitPc' = "pull"
          /\ IF dirty[idx]
             THEN /\ stashes' = [stashes EXCEPT ![idx] = <<StashMessage(idx)>> \o @]
                  /\ dirty' = [dirty EXCEPT ![idx] = FALSE]
             ELSE UNCHANGED <<stashes, dirty>>
          /\ UNCHANGED <<pc, idx, output, log, stashRef>>
       \/ /\ PullActionThrows
          /\ UNCHANGED <<stashes, dirty>>
    /\ UNCHANGED <<runner, projectList, isCancellationRequested, warnings,
                   progressOpen, cancelAt>>
    /\ UNCHANGED notPull

\* await git.pull(undefined, undefined, { "--rebase": null })
PullRebase ==
    /\ pc = "action"
    /\ gitPc = "pull"
    /\ \/ /\ gitPc' = "list"
          /\ UNCHANGED <<pc, idx, output, log, stashRef>>
       \/ PullActionThrows
    /\ UNCHANGED <<stashes, dirty>>
    /\ UNCHANGED <<runner, projectList, isCancellationRequested, warnings,
                   progressOpen, cancelAt>>
    /\ UNCHANGED notPull

\* popNamedStash up to its pop: the stash list is read and searched.
PullStashList ==
    /\ pc = "action"
    /\ gitPc = "list"
    /\ \/ \E n \in {FindStash(stashes[idx], StashMessage(idx))} :
             IF n < 0
             THEN PullActionReturns("No matching stash to restore.")
             ELSE /\ stashRef' = n
                  /\ gitPc' = "pop"
                  /\ UNCHANGED <<pc, idx, output, log>>
       \/ PullActionThrows
    /\ UNCHANGED <<stashes, dirty>>
    /\ UNCHANGED <<runner, projectList, isCancellationRequested, warnings,
                   progressOpen, cancelAt>>
    /\ UNCHANGED notPull

\* await git.raw(["stash", "pop", "--index", `stash@{N}`]): the stash is
\* applied and dropped, or the pop fails and the stash stays.
PullStashPop ==
    /\ pc = "action"
    /\ gitPc = "pop"
    /\ \/ /\ stashes' = [stashes EXCEPT ![idx] = DropStash(@, stashRef)]
          /\ dirty' = [dirty EXCEPT ![idx] = TRUE]
          /\ PullActionReturns("Restored stash.")
       \/ /\ PullActionThrows
          /\ UNCHANGED <<stashes, dirty>>
    /\ UNCHANGED <<runner, projectList, isCancellationRequested, warnings,
                   progressOpen, cancelAt>>
    /\ UNCHANGED notPull

PullInit ==
    /\ gitPc = "checkout"
    /\ stashes \in [1..MaxItems -> OldStashLists]
    /\ dirty \in [1..MaxItems -> BOOLEAN]
    /\ stashRef = 0

PullNext ==
    \/ RunPullUpdateAll
    \/ LoopHead
    \/ Cancel
    \/ PullCheckout
    \/ PullStashPush
    \/ PullRebase
    \/ PullStashList
    \/ PullStashPop

InitPull ==
    /\ PullInit /\ BatchInit
    /\ DiscIdle /\ LocIdle /\ ShellIdle /\ CheckIdle /\ ConcIdle

SpecPull == InitPull /\ [][PullNext]_vars

\* C14: a batch run whose item list is empty (no module found, an empty
\* list passed in, no workspace folder) shows exactly one warning and
\* returns: the output trace is neither cleared nor appended to, no progress
\* notification is opened and no action is invoked.
C14_EmptyListOnlyWarns ==
    [][ (pc = "idle" /\ pc' # "idle" /\ Len(projectList') = 0) =>
           /\ pc' = "done"
           /\ warnings' = Append(warnings, EmptyWarning(runner'))
           /\ output' = output
           /\ progressOpen' = FALSE
           /\ log' = <<>> ]_vars

\* A run over an empty list has returned with the earlier output in place.
C14_Witness ==
    /\ pc = "done"
    /\ projectList = <<>>
    /\ Len(warnings) = 1
    /\ output # <<>>
    /\ log = <<>>

\* ------------------------------------- Pull/Update action: properties

\* C13 (as stated): for every module the batch has moved past, the stash
\* the action created there (the one carrying that action's message) has
\* been popped again, whatever happened to the pull; so when the batch ends
\* no stash created by the operation remains.
C13_StashRestored ==
    \A i \in 1..Len(projectList) :
       i < idx => \A k \in 1..Len(stashes[i]) : stashes[i][k] # StashMessage(i)

\* ------------------------------------- command handlers side by side

\* The item lists an invocation can run over (sorted by name).
HandlerLists == { l \in SeqsUpTo(ItemNames, MaxConcItems) : IsSortedByName(l) }

\* A line of the shared trace, tagged with the invocation that wrote it.
HandlerLine(h, kind, i) == [by |-> h, kind |-> kind, item |-> i]

\* A command is executed (vscode.commands.executeCommand, from a dashboard
\* message or the command palette): the runner is entered whatever the
\* other invocation is doing.
HandlerStart(h) ==
    /\ hPc[h] = "idle"
    /\ \E list \in HandlerLists :
          /\ hList' = [hList EXCEPT ![h] = list]
          /\ IF Len(list) = 0
             THEN /\ hPc' = [hPc EXCEPT ![h] = "done"]
                  /\ UNCHANGED sharedOut
             ELSE /\ hPc' = [hPc EXCEPT ![h] = "check"]
                  /\ sharedOut' = <<>>
    /\ UNCHANGED <<hIdx, procs>>
    /\ UNCHANGED notConc

\* The loop head of invocation h: the header is appended and the item's
\* external process is started.
HandlerLoopHead(h) ==
    /\ hPc[h] = "check"
    /\ IF hIdx[h] > Len(hList[h])
       THEN /\ hPc' = [hPc EXCEPT ![h] = "done"]
            /\ UNCHANGED <<sharedOut, procs>>
       ELSE /\ hPc' = [hPc EXCEPT ![h] = "action"]
            /\ sharedOut' = Append(sharedOut, HandlerLine(h, "header", hIdx[h]))
            /\ procs' = procs \cup {h}
    /\ UNCHANGED <<hList, hIdx>>
    /\ UNCHANGED notConc

\* The external process of invocation h ends: its output is appended, or
\* the failure line is, and the loop goes to the next item.
HandlerActionEnds(h) ==
    /\ hPc[h] = "action"
    /\ \E kind \in {"action", "error"} :
          sharedOut' = Append(sharedOut, HandlerLine(h, kind, hIdx[h]))
    /\ procs' = procs \ {h}
    /\ hIdx' = [hIdx EXCEPT ![h] = @ + 1]
    /\ hPc' = [hPc EXCEPT ![h] = "check"]
    /\ UNCHANGED hList
    /\ UNCHANGED notConc

ConcInit == ConcIdle

ConcNext ==
    \/ \E h \in Handlers : HandlerStart(h)
    \/ \E h \in Handlers : HandlerLoopHead(h)
    \/ \E h \in Handlers : HandlerActionEnds(h)

InitConcurrent ==
    /\ ConcInit
    /\ BatchIdle /\ output = <<>>
    /\ DiscIdle /\ LocIdle /\ ShellIdle /\ CheckIdle /\ PullIdle

SpecConcurrent == InitConcurrent /\ [][ConcNext]_vars

\* -------------------------- command handlers side by side: properties

\* The invocations that are in progress.
InProgress == { h \in Handlers : hPc[h] \in {"check", "action"} }

\* C15 (as stated): at most one command handler is in progress at any
\* time and at most one external process runs; while an invocation awaits
\* its process no other invocation is in progress, so none clears or
\* appends to the shared trace or starts a process.
C15_OneHandlerAtATime ==
    /\ Cardinality(InProgress) <= 1
    /\ Cardinality(procs) <= 1
    /\ \A h \in Handlers :
          hPc[h] = "action" => \A g \in Handlers \ {h} : hPc[g] \in {"idle", "done"}

\* ---------------------------------------- batch runner: properties

\* The items whose action was invoked, in the order of the calls.
RECURSIVE ItemsOf(_, _)
ItemsOf(l, evs) ==
    IF l = <<>> THEN <<>>
    ELSE (IF Head(l).ev \in evs THEN <<Head(l).item>> ELSE <<>>) \o ItemsOf(Tail(l), evs)

Invoked == ItemsOf(log, {"invoke"})
Finished == ItemsOf(log, {"return", "throw"})
Threw == { log[k].item : k \in { j \in 1..Len(log) : log[j].ev = "throw" } }

\* <<1, 2, ..., n>>
UpTo(n) == [k \in 1..n |-> k]

\* Positions of the trace lines of one kind.
LinesOfKind(kind) == { k \in 1..Len(output) : output[k].kind = kind }

\* Where the header of item i stands in the trace (0: nowhere).
HeaderPos(i) ==
    IF \E k \in LinesOfKind("header") : output[k].item = i
    THEN CHOOSE k \in LinesOfKind("header") : output[k].item = i
    ELSE 0

\* The failure lines between the header of item i and the next header.
FailuresOf(i) ==
    { e \in LinesOfKind("error") :
        /\ HeaderPos(i) > 0
        /\ HeaderPos(i) < e
        /\ \A k \in LinesOfKind("header") : k > HeaderPos(i) => e < k }

\* The header texts, in trace order.
RECURSIVE HeaderTexts(_)
HeaderTexts(out) ==
    IF out = <<>> THEN <<>>
    ELSE (IF Head(out).kind = "header" THEN <<Head(out).text>> ELSE <<>>)
         \o HeaderTexts(Tail(out))

\* C1: in a run that is not cancelled, an item whose action throws does not
\* stop the others: every item's action is invoked, in list order, and the
\* trace holds exactly one failure line per throwing item, after that item's
\* header and before the next item's header (none for the other items).
C1_ThrowDoesNotStopBatch ==
    (pc = "done" /\ Len(projectList) > 0 /\ ~isCancellationRequested) =>
       /\ Invoked = UpTo(Len(projectList))
       /\ Cardinality(LinesOfKind("error")) = Cardinality(Threw)
       /\ \A k \in 1..Len(projectList) :
             Cardinality(FailuresOf(k)) = IF k \in Threw THEN 1 ELSE 0

C1_Witness ==
    /\ pc = "done" /\ ~isCancellationRequested
    /\ Len(projectList) = 3
    /\ Threw = {2}
    /\ Invoked = <<1, 2, 3>>
    /\ Cardinality(LinesOfKind("error")) = 1

\* C2: cancellation requested between item j and item j+1 leaves exactly j
\* items processed: no header and no action for the later items, the trace
\* as it was.  Cancellation requested while an action is in flight lets that
\* action finish, and no later item is started.
C2_CancelBetweenItems ==
    /\ (isCancellationRequested /\ cancelAt.pc = "check") =>
          /\ pc \in {"check", "done"}
          /\ output = cancelAt.output
          /\ Invoked = UpTo(cancelAt.idx - 1)
          /\ Finished = UpTo(cancelAt.idx - 1)
          /\ Cardinality(LinesOfKind("header")) = cancelAt.idx - 1
    /\ (isCancellationRequested /\ cancelAt.pc = "action") =>
          /\ Invoked = UpTo(cancelAt.idx)
          /\ Cardinality(LinesOfKind("header")) = cancelAt.idx
          /\ SubSeq(output, 1, Len(cancelAt.output)) = cancelAt.output
          /\ pc = "done" => Finished = UpTo(cancelAt.idx)

C2_Witness ==
    /\ pc = "done" /\ isCancellationRequested
    /\ cancelAt.pc = "check" /\ cancelAt.idx = 3
    /\ Len(projectList) >= 3
    /\ Invoked = <<1, 2>>

\* C3: each item's action is invoked once, item i+1 only after item i's
\* action returned or threw, and the headers stand in the order of the list;
\* a run that is not cancelled invokes every item's action.
C3_SequentialOnce ==
    /\ \E m \in 0..Len(projectList) :
          /\ Invoked = UpTo(m)
          /\ Finished \in { UpTo(m), UpTo(m - 1) }
          /\ pc = "action" <=> Finished # Invoked
          /\ HeaderTexts(output) = SubSeq(projectList, 1, m)
    /\ \A p \in 1..Len(log) :
          (log[p].ev = "invoke" /\ log[p].item > 1) =>
             \E q \in 1..(p - 1) :
                log[q].ev \in {"return", "throw"} /\ log[q].item = log[p].item - 1
    /\ (pc = "done" /\ Len(projectList) > 0 /\ ~isCancellationRequested) =>
          Invoked = UpTo(Len(projectList))

C3_Witness ==
    /\ pc = "done" /\ ~isCancellationRequested
    /\ projectList = <<"core", "app", "core">>
    /\ Threw = {1, 3}
    /\ HeaderTexts(output) = projectList

\* ------------------------------------------- localizer: properties

Range(f) == { f[k] : k \in DOMAIN f }

\* The lines of the file the last call read.
Lines0 == SplitLines(file0.text)

FooLine == <<"  ", "foo", ":">>
VersionLine == <<"    ", "version", ":", " ", "1.0.0">>

\* An empty line or a full-line comment: the first lexeme that is not white
\* space starts with "#".
IsBlankOrComment(line) ==
    \/ line = <<>>
    \/ \E k \in 1..Len(line) :
          /\ line[k] \in HashLexemes
          /\ \A j \in 1..(k - 1) : line[j] \in WhiteSpace

\* The sibling names a line declares, by its prefix.
DepsOf(line) == { d \in Range(projectNames) : StartsWith(Trim(line), DepKey(d)) }

\* Line i is a dependency declaration that is not followed by an active path line.
Rewritable(lines, i) ==
    /\ ~IsBlankOrComment(lines[i])
    /\ DepsOf(lines[i]) # {}
    /\ ~isActivePathLine(NextLineOf(lines, i))

\* The original lines with each line of `at` substituted by its two lines.
RECURSIVE Substituted(_, _, _)
Substituted(lines, at, i) ==
    IF i > Len(lines) THEN <<>>
    ELSE (IF i \in at
          THEN LET d == CHOOSE d \in DepsOf(lines[i]) : TRUE
               IN  << <<"  ", d, ":">>, <<"    ", "path", ":", " ", "../", d>> >>
          ELSE <<lines[i]>>) \o Substituted(lines, at, i + 1)

\* Where original line i lands in the written line sequence.
PosOf(i) == i + Cardinality({ j \in replacedAt : j < i })

\* The characters of the file, lexemes run together by "\n".
TextOf(ls) == Join(ls, <<"\n">>)

\* C6 (as stated): for the manifest `  foo:` / `    version: 1.0.0` with foo a
\* known sibling, the call returns true and the file written is exactly the
\* two lines `  foo:` / `    path: ../foo`.
C6_Original ==
    (runs = 1 /\ file0.exists /\ Lines0 = <<FooLine, VersionLine>>
       /\ "foo" \in Range(projectNames))
    => (updated /\ file.text = TextOf(<< FooLine, <<"    ", "path", ":", " ", "../", "foo">> >>))

\* C6 (amended): for that manifest, with no sibling named `version`, the call
\* returns true and writes three lines: `  foo:`, `    path: ../foo` and the
\* kept `    version: 1.0.0`.  In general the two emitted lines stand where
\* the dependency line stood and the line that followed it is still there
\* right after them (itself rewritten or unchanged).
C6_PathInsertedSubKeyKept ==
    LET lines == Lines0
        out   == SplitLines(file.text)
    IN  /\ (runs = 1 /\ file0.exists /\ lines = <<FooLine, VersionLine>>
              /\ "foo" \in Range(projectNames) /\ "version" \notin Range(projectNames))
           => (/\ updated
               /\ wrote
               /\ file.text = TextOf(<< FooLine,
                                        <<"    ", "path", ":", " ", "../", "foo">>,
                                        VersionLine >>))
        /\ (runs >= 1 /\ wrote)
           => \A i \in replacedAt :
                 \E d \in DepsOf(lines[i]) :
                    /\ out[PosOf(i)] = <<"  ", d, ":">>
                    /\ out[PosOf(i) + 1] = <<"    ", "path", ":", " ", "../", d>>
                    /\ i < Len(lines) =>
                         /\ Len(out) >= PosOf(i) + 2
                         /\ (i + 1 \notin replacedAt => out[PosOf(i) + 2] = lines[i + 1])

C6_Witness ==
    /\ runs = 1 /\ file0.exists /\ Lines0 = <<FooLine, VersionLine>>
    /\ projectNames = <<"foo">>
    /\ updated /\ wrote /\ Len(SplitLines(file.text)) = 3

\* C7: the file is written iff at least one line was replaced, and the
\* return value says so; when the file is unreadable, or every line that
\* declares a known sibling is already followed by an active path line, the
\* call returns false and the file is byte-identical, line endings included.
C7_WriteIffReplaced ==
    runs >= 1 =>
       LET lines == Lines0
           some  == file0.exists /\ \E i \in 1..Len(lines) : Rewritable(lines, i)
       IN  /\ wrote <=> (replacedAt # {})
           /\ updated <=> wrote
           /\ ~updated => file = file0
           /\ ~some => (~updated /\ ~wrote /\ file = file0)
           /\ some => (updated /\ wrote)

C7_Witness ==
    LET lines == Lines0 IN
    /\ runs >= 1 /\ file0.exists
    /\ \E k \in 1..Len(file0.text) : file0.text[k] = "\r"
    /\ \E i \in 1..Len(lines) :
          /\ ~IsBlankOrComment(lines[i])
          /\ DepsOf(lines[i]) # {}
          /\ isActivePathLine(NextLineOf(lines, i))
    /\ ~updated /\ ~wrote /\ file = file0

\* C8: when the file is rewritten, what is written is the original line
\* sequence (split on LF or CRLF) with each replaced line substituted by
\* `  <dep>:` and `    path: ../<dep>`, every other line once, unchanged and
\* in order, joined by single LF characters.
C8_OtherLinesKept ==
    (runs >= 1 /\ wrote) =>
       LET lines == Lines0 IN
       /\ replacedAt = { i \in 1..Len(lines) : Rewritable(lines, i) }
       /\ file.text = TextOf(Substituted(lines, replacedAt, 1))
       /\ \A k \in 1..Len(file.text) : file.text[k] # "\r"

C8_Witness ==
    LET lines == Lines0 IN
    /\ runs >= 1 /\ wrote
    /\ \E k \in 1..Len(file0.text) : file0.text[k] = "\r"
    /\ Len(lines) >= 3
    /\ replacedAt # {}
    /\ \E i \in 1..Len(lines) : i \notin replacedAt /\ lines[i] # <<>>
                                 /\ \E j \in replacedAt : j < i

\* C9: an empty line or a full-line comment is never rewritten, whatever the
\* sibling names and the following line: it is copied unchanged and does not
\* make the call return true.
C9_CommentsUntouched ==
    (runs >= 1 /\ file0.exists) =>
       LET lines == Lines0
           out   == SplitLines(file.text)
       IN  /\ \A i \in 1..Len(lines) :
                 IsBlankOrComment(lines[i]) =>
                    /\ i \notin replacedAt
                    /\ out[PosOf(i)] = lines[i]
           /\ (\A i \in 1..Len(lines) : IsBlankOrComment(lines[i])) => ~updated

C9_Witness ==
    LET lines == Lines0 IN
    /\ runs >= 1 /\ file0.exists /\ wrote
    /\ "#foo" \in Range(projectNames)
    /\ \E i \in 1..Len(lines) :
          /\ lines[i] = <<"#foo", ":">>
          /\ PosOf(i) > i
          /\ ~isActivePathLine(NextLineOf(lines, i))

====
